---- MODULE Spec2Model ----
(***************************************************************************)
(* Stock price forecasting scripts (untitled.py, deploy.py): the entry     *)
(* scripts, get_forecast (windowing, the three model adapters, the error   *)
(* table and the ensemble trace), calculate_directional_accuracy and       *)
(* search_symbols.                                                         *)
(*                                                                         *)
(* Timestamps are day numbers; d % 7 is Python's weekday() (0 = Monday,    *)
(* ..., 5 = Saturday, 6 = Sunday).  Prices are integers.  A pandas Series  *)
(* is a sequence of records [day, close]; a numpy array is a sequence of   *)
(* values.  The numerics of the external libraries (pmdarima, keras, the   *)
(* random draws of numpy) are inputs chosen from small sets.               *)
(***************************************************************************)
EXTENDS Integers, Sequences, FiniteSets, TLC

VARIABLES
    script,       \* which entry script runs: "untitled" or "deploy"
    pc,           \* position of the script
    hist,         \* the history returned by stock.history(period="max")
    args,         \* get_forecast's validation_days and days_to_forecast, and
                  \* the leap days inside its relativedelta(years = k)
    win,          \* get_forecast's locals: last_day ... forecast_days
    started,      \* the adapters that were called, in call order
    fc,           \* adapter name -> the fc_df it returned
    errs,         \* adapter name -> the errors it returned
    out,          \* what is shown: message, error_df, the figure's traces
    raised,       \* the exception that ended the script ("none" if none)
    da,           \* calculate_directional_accuracy: its arguments and outcome
    log,          \* adapter name -> what the adapter did inside: the calls on
                  \* its model, the windows it fed, the list entries it read
    search        \* search_symbols: the scraped page and the outcome

vars == <<script, pc, hist, args, win, started, fc, errs, out, raised, da, log, search>>


(***************************************************************************)
(* Bounds of the model.                                                    *)
(***************************************************************************)
\* A Monday; the last historical day is BaseWeek*7 + (0..6).
BaseWeek == 1000
\* get_forecast is entered with days_to_forecast in 1..MaxForecastDays or 30,
MaxForecastDays == 4
\* and with validation_days in 1..MaxValidationDays or the script's default.
MaxValidationDays == 3
\* calculate_directional_accuracy is applied to sequences of length 0..MaxLen.
MaxLen == 3
\* ... of prices 1..MaxPrice.
MaxPrice == 3
\* search_symbols is applied to suggestion lists of 0..MaxItems items.
MaxItems == 3

(***************************************************************************)
(* Program constants.                                                      *)
(***************************************************************************)
UntitledLookbackYears == 2
DeployLookbackYears == 5
UntitledValidationDays == 90
DeployValidationDays == 365
DefaultForecastDays == 30
\* the sequence model's window
LookBack == 60

Scripts == {"untitled", "deploy"}

(***************************************************************************)
(* Sequences.                                                              *)
(***************************************************************************)
Last(s) == s[Len(s)]

\* s[lo:hi] of Python for 0 <= lo, hi (clipped to the length)
Slice(s, lo, hi) ==
    LET h == IF hi > Len(s) THEN Len(s) ELSE hi
    IN  IF lo >= h THEN <<>> ELSE [k \in 1..(h - lo) |-> s[lo + k]]

\* s[-n:] of Python for n > 0
Tail_n(s, n) == IF Len(s) <= n THEN s ELSE Slice(s, Len(s) - n, Len(s))

Values(series) == [k \in 1..Len(series) |-> series[k].close]
Index(series) == [k \in 1..Len(series) |-> series[k].day]

\* s[lo] + ... + s[hi], by halves
RECURSIVE SumRange(_, _, _)
SumRange(s, lo, hi) ==
    IF lo > hi THEN 0
    ELSE IF lo = hi THEN s[lo]
    ELSE LET mid == (lo + hi) \div 2
         IN  SumRange(s, lo, mid) + SumRange(s, mid + 1, hi)

SumSeq(s) == SumRange(s, 1, Len(s))

(***************************************************************************)
(* The data source.  A history is one observation per trading day, days    *)
(* strictly increasing.  Stocks trade on weekdays; "alldays" is a symbol   *)
(* that trades every day.                                                  *)
(***************************************************************************)
IsWeekday(d) == d % 7 < 5

Trades(calendar, d) == calendar = "alldays" \/ IsWeekday(d)

\* the closing price of a day: distinct on neighbouring days, rising and falling
Close(d) == 100 + (d % 50) + (IF d % 3 = 0 THEN 7 ELSE 0)

\* the trading days among d..lastD, in order
TradingDays(calendar, d, lastD) ==
    LET days == { e \in d..lastD : Trades(calendar, e) }
        \* the trading days of the weeks before e's week, and of e's week up to e
        rank(e) == IF calendar = "alldays" THEN e - d + 1
                   ELSE (((e - (e % 7)) - (d - (d % 7))) \div 7) * 5
                          + ((e % 7) + 1) - (IF d % 7 < 5 THEN d % 7 ELSE 5)
    IN  [k \in 1..Cardinality(days) |-> CHOOSE e \in days : rank(e) = k]

\* the history of span calendar days that ends on lastD (span = 0: no data)
History(calendar, span, lastD) ==
    LET days == TradingDays(calendar, lastD - span + 1, lastD)
    IN  [k \in 1..Len(days) |-> [day |-> days[k], close |-> Close(days[k])]]

HistShapes ==
    { [calendar |-> "weekdays", span |-> 0],
      [calendar |-> "weekdays", span |-> 5],
      [calendar |-> "weekdays", span |-> 130],
      [calendar |-> "alldays",  span |-> 63],
      [calendar |-> "alldays",  span |-> 100],
      [calendar |-> "weekdays", span |-> 760] }

Histories ==
    { History(sh.calendar, sh.span, BaseWeek * 7 + wd) :
        sh \in HistShapes, wd \in 0..6 }

(***************************************************************************)
(* Calendar arithmetic of get_forecast.                                    *)
(***************************************************************************)
\* relativedelta(years = k): k calendar years, leapDays of them leap days
YearsDelta(k, leapDays) == 365 * k + leapDays

LookbackYears(s) ==
    IF s = "untitled" THEN UntitledLookbackYears ELSE DeployLookbackYears

DefaultValidationDays(s) ==
    IF s = "untitled" THEN UntitledValidationDays ELSE DeployValidationDays

\* the leap days k consecutive years can hold
LeapChoices(k) == { k \div 4, k \div 4 + 1 }

\* series.loc[lo:hi]: label slicing of a sorted index, both ends included
Loc(series, lo, hi) == SelectSeq(series, LAMBDA o : lo <= o.day /\ o.day <= hi)

\* series.loc[lo:]
LocFrom(series, lo) == SelectSeq(series, LAMBDA o : lo <= o.day)

\* pd.date_range(start, end, freq = "B"): start rolls forward to a business
\* day, then one business day at a time while not after end
RollForward_NoRoll(d) == d

RollForward(d) == IF d % 7 = 5 THEN d + 2 ELSE IF d % 7 = 6 THEN d + 1 ELSE d

RECURSIVE BRange(_, _)
BRange(cur, end) ==
    IF cur > end THEN <<>>
    ELSE <<cur>> \o BRange(RollForward(cur + 1), end)

BDateRange(start, end) == BRange(RollForward(start), end)

\* get_forecast up to the adapters' calls
Windows(h, years, leapDays, validation_days, days_to_forecast) ==
    LET last_day          == Last(h).day
        first_day         == last_day - YearsDelta(years, leapDays)
        last_train_day    == last_day - validation_days
        last_forecast_day == last_day + days_to_forecast
    IN  [ last_day       |-> last_day,
          first_day      |-> first_day,
          last_train_day |-> last_train_day,
          y_train        |-> Loc(h, first_day, last_train_day),
          y_test         |-> LocFrom(h, last_train_day),
          all_days       |-> LocFrom(h, first_day),
          forecast_days  |-> BDateRange(last_day + 1, last_forecast_day) ]

NoWindows ==
    [ last_day |-> 0, first_day |-> 0, last_train_day |-> 0, y_train |-> <<>>,
      y_test |-> <<>>, all_days |-> <<>>, forecast_days |-> <<>> ]

(***************************************************************************)
(* Metrics.  A float is a fraction num/den; a call either returns or       *)
(* raises.                                                                 *)
(***************************************************************************)
Frac(n, d) == [num |-> n, den |-> d]

Returns(v) == [kind |-> "return", exc |-> "none", value |-> v]
Raises(e) == [kind |-> "raise", exc |-> e, value |-> Frac(0, 1)]

SameDirection_FromPrediction(actual_prices, predicted_prices, i) ==
    LET actual_direction    == actual_prices[i + 1] - actual_prices[i]
        predicted_direction == predicted_prices[i + 1] - predicted_prices[i]
    IN  \/ (actual_direction >= 0 /\ predicted_direction >= 0)
        \/ (actual_direction < 0 /\ predicted_direction < 0)

\* the test of the loop body at index i (0-based, 1 <= i < len)
SameDirection(actual_prices, predicted_prices, i) ==
    LET actual_direction    == actual_prices[i + 1] - actual_prices[i]
        predicted_direction == predicted_prices[i + 1] - actual_prices[i]
    IN  \/ (actual_direction >= 0 /\ predicted_direction >= 0)
        \/ (actual_direction < 0 /\ predicted_direction < 0)

\* correct_predictions after the loop for i in range(1, len(actual_prices))
CorrectPredictions(actual_prices, predicted_prices) ==
    SumSeq([i \in 1..(Len(actual_prices) - 1) |->
              IF SameDirection(actual_prices, predicted_prices, i) THEN 1 ELSE 0])

LengthsDiffer_OneSided(actual_prices, predicted_prices) ==
    Len(actual_prices) > Len(predicted_prices)

\* if len(actual_prices) != len(predicted_prices)
LengthsDiffer(actual_prices, predicted_prices) ==
    Len(actual_prices) # Len(predicted_prices)

calculate_directional_accuracy(actual_prices, predicted_prices) ==
    IF LengthsDiffer(actual_prices, predicted_prices)
    THEN Raises("ValueError")
    ELSE LET correct_predictions == CorrectPredictions(actual_prices, predicted_prices)
             total_predictions   == Len(actual_prices) - 1
         IN  IF total_predictions = 0
             THEN Raises("ZeroDivisionError")
             ELSE Returns(Frac(correct_predictions, total_predictions))

\* sklearn's mean_squared_error: the mean of the squared differences
mean_squared_error(y_true, y_pred) ==
    IF Len(y_true) # Len(y_pred) \/ Len(y_true) = 0
    THEN Raises("ValueError")
    ELSE Returns(Frac(SumSeq([k \in 1..Len(y_true) |->
                                (y_true[k] - y_pred[k]) * (y_true[k] - y_pred[k])]),
                      Len(y_true)))

\* the errors dict of an adapter: the first metric that raises ends it
\* (SMAPE is computed between the two and raises when the MSE does)
Errors(y_test, predictions) ==
    LET mse == mean_squared_error(Values(y_test), predictions)
        acc == calculate_directional_accuracy(Values(y_test), predictions)
    IN  IF mse.kind = "raise" THEN [kind |-> "raise", exc |-> mse.exc,
                                    mse |-> mse.value, DA |-> acc.value]
        ELSE IF acc.kind = "raise" THEN [kind |-> "raise", exc |-> acc.exc,
                                         mse |-> mse.value, DA |-> acc.value]
        ELSE [kind |-> "return", exc |-> "none", mse |-> mse.value, DA |-> acc.value]

NoErrors == [kind |-> "none", exc |-> "none", mse |-> Frac(0, 1), DA |-> Frac(0, 1)]

(***************************************************************************)
(* Forecast frames.  A cell of a frame is a float or NaN; fc_df is one row *)
(* per label of its index, created with every cell NaN.                    *)
(***************************************************************************)
Cell(v) == [nan |-> FALSE, num |-> v, den |-> 1]
NaNCell == [nan |-> TRUE, num |-> 0, den |-> 1]

\* pd.DataFrame(columns = ['fc'], index = forecast_days)
EmptyFrame(forecast_days) ==
    [k \in 1..Len(forecast_days) |-> [day |-> forecast_days[k], fc |-> NaNCell]]

\* fc_df.loc[new_day, 'fc'] = v: every row labelled new_day
SetLoc(frame, new_day, v) ==
    [k \in 1..Len(frame) |->
        IF frame[k].day = new_day THEN [frame[k] EXCEPT !.fc = Cell(v)] ELSE frame[k]]

\* i = 0; for new_day in fc_df.index.tolist(): fc_df.loc[new_day, 'fc'] = forecast[i]; i += 1
\* (from position i, 1-based, on); forecast[i] past the end raises IndexError
RECURSIVE FillFrom(_, _, _)
FillFrom(frame, forecast, i) ==
    IF i > Len(frame) THEN [ok |-> TRUE, frame |-> frame]
    ELSE IF i > Len(forecast) THEN [ok |-> FALSE, frame |-> frame]
    ELSE FillFrom(SetLoc(frame, frame[i].day, forecast[i]), forecast, i + 1)

Fill_SkipsFirst(forecast_days, forecast) == FillFrom(EmptyFrame(forecast_days), forecast, 2)

Fill(forecast_days, forecast) == FillFrom(EmptyFrame(forecast_days), forecast, 1)

\* what an adapter did inside, as far as it got:
\*   calls     the calls on its external model, in order
\*   val_pred  the validation predictions it handed to the error metrics
\*   val_X     the input windows of the validation predictions
\*   fc_X      the input window of each step of the forecast loop
\*   val_reads, fc_reads   the entries the simulation read, one per pass
\*   fc_pred   the simulated prices of the forecast
NoLog ==
    [ calls |-> <<>>, val_pred |-> <<>>, val_X |-> <<>>, fc_X |-> <<>>,
      val_reads |-> <<>>, fc_reads |-> <<>>, fc_pred |-> <<>> ]

\* a call on the external model: op the method, k the position (1-based) in
\* y_test the call is made for (0: none), n the number of values asked for
\* or given, seen the observations the model holds when it is called
ModelCall(op, k, n, seen) == [op |-> op, k |-> k, n |-> n, seen |-> seen]

\* what an adapter call comes to
AdapterRaises(e) == [ok |-> FALSE, exc |-> e, fc_df |-> <<>>, errors |-> NoErrors, log |-> NoLog]
AdapterReturns(f, e) == [ok |-> TRUE, exc |-> "none", fc_df |-> f, errors |-> e, log |-> NoLog]

WithLog(result, l) == [result EXCEPT !.log = l]

\* the common tail of the adapters: the errors dict, then the filled frame
Finish(errors, forecast_days, forecast) ==
    LET filled == Fill(forecast_days, forecast)
    IN  IF errors.kind = "raise" THEN AdapterRaises(errors.exc)
        ELSE IF ~filled.ok THEN AdapterRaises("IndexError")
        ELSE AdapterReturns(filled.frame, errors)

(***************************************************************************)
(* auto_arima_model.  The fitted model is external: order names the model  *)
(* auto_arima selected, "fails" a fit or a predict that raises.  The model *)
(* predicts from the observations it was fitted on and updated with.       *)
(***************************************************************************)
ArimaOrders == {"naive", "drift", "fails"}

\* model.predict(n_periods = n) after the observations seen
ArimaPredict(order, seen, n) ==
    LET step == IF order = "drift" /\ Len(seen) >= 2
                THEN seen[Len(seen)] - seen[Len(seen) - 1] ELSE 0
    IN  [h \in 1..n |-> seen[Len(seen)] + h * step]

\* what the model has seen when the walk-forward loop reaches y_test[k]
\* (1-based): the training values and, by model.update, those of y_test
\* before k
SeenBefore(train, y_test, k) == train \o [j \in 1..(k - 1) |-> y_test[j].close]

\* for date, price in y_test.items(): predict one step, record it, then
\* model.update with the true price
ArimaWalk(order, train, y_test) ==
    [ forecasts |-> [k \in 1..Len(y_test) |->
                       ArimaPredict(order, SeenBefore(train, y_test, k), 1)[1]],
      seen      |-> SeenBefore(train, y_test, Len(y_test) + 1) ]

\* the calls of the loop on the model: for the k-th item of y_test,
\* validate_and_update (model.predict(n_periods = 1)), then model.update
ArimaWalkCalls_UpdateFirst(train, y_test) ==
    [j \in 1..(2 * Len(y_test)) |->
        IF j % 2 = 1
        THEN ModelCall("update", (j + 1) \div 2, 1, Len(train) + (j - 1) \div 2)
        ELSE ModelCall("validate_and_update", j \div 2, 1, Len(train) + j \div 2)]

ArimaWalkCalls(train, y_test) ==
    [j \in 1..(2 * Len(y_test)) |->
        IF j % 2 = 1
        THEN ModelCall("validate_and_update", (j + 1) \div 2, 1,
                       Len(SeenBefore(train, y_test, (j + 1) \div 2)))
        ELSE ModelCall("update", j \div 2, 1,
                       Len(SeenBefore(train, y_test, j \div 2)))]

auto_arima_model(order, y_train, y_test, forecast_days) ==
    LET fit == <<ModelCall("auto_arima", 0, Len(y_train), 0)>>
    IN  IF Len(y_train) = 0 \/ order = "fails"
        THEN WithLog(AdapterRaises("ValueError"), [NoLog EXCEPT !.calls = fit])
        ELSE LET walk   == ArimaWalk(order, Values(y_train), y_test)
                 errors == Errors(y_test, walk.forecasts)
                 f      == ArimaPredict(order, walk.seen, Len(forecast_days))
                 walked == fit \o ArimaWalkCalls(Values(y_train), y_test)
                 asked  == ModelCall("forecast_one_month", 0, Len(forecast_days),
                                     Len(walk.seen))
             IN  IF errors.kind = "raise"
                 THEN WithLog(AdapterRaises(errors.exc),
                              [NoLog EXCEPT !.calls = walked,
                                            !.val_pred = walk.forecasts])
                 ELSE WithLog(Finish(errors, forecast_days, f),
                              [NoLog EXCEPT !.calls = Append(walked, asked),
                                            !.val_pred = walk.forecasts])

(***************************************************************************)
(* lstm_model.  MinMaxScaler maps x to (x - data_min) / (data_max -        *)
(* data_min); a scaled value is kept as its numerator x - data_min over    *)
(* the common denominator.  The trained network is external: net names     *)
(* the function of a 60-value window it learned, "fails" a fit that        *)
(* raises.                                                                 *)
(***************************************************************************)
LstmNets == {"echo", "ends", "fails"}

MinSeq(s) == CHOOSE m \in {s[k] : k \in 1..Len(s)} : \A j \in 1..Len(s) : m <= s[j]

\* scaler.transform / scaler.inverse_transform
Transform(data_min, x) == x - data_min
InverseTransform(data_min, y) == y + data_min

\* model.predict on one window (scaled in, scaled out)
NetPredict(net, window) ==
    IF net = "ends" THEN (window[1] + window[Len(window)]) \div 2
    ELSE window[Len(window)]

\* for i in range(60, len(scaled)): X.append(scaled[i-60:i])
Windows60_ThroughPoint(scaled) ==
    IF Len(scaled) <= LookBack THEN <<>>
    ELSE [k \in 1..(Len(scaled) - LookBack) |-> Slice(scaled, k, k + LookBack)]

Windows60(scaled) ==
    IF Len(scaled) <= LookBack THEN <<>>
    ELSE [k \in 1..(Len(scaled) - LookBack) |-> Slice(scaled, k - 1, k - 1 + LookBack)]

\* the forecast loop: n more predictions, each appended to the window
RECURSIVE Rollout(_, _, _)
Rollout(net, last_sequence, n) ==
    IF n = 0 THEN <<>>
    ELSE LET next_pred == NetPredict(net, last_sequence)
         IN  <<next_pred>> \o Rollout(net, Append(Tail(last_sequence), next_pred), n - 1)

\* last_sequence at the head of each pass of the forecast loop
RECURSIVE RolloutWindows(_, _, _)
RolloutWindows(net, last_sequence, n) ==
    IF n = 0 THEN <<>>
    ELSE LET next_pred == NetPredict(net, last_sequence)
         IN  <<last_sequence>> \o
               RolloutWindows(net, Append(Tail(last_sequence), next_pred), n - 1)

lstm_model(net, y_train, y_test, forecast_days) ==
    LET trainset == Values(y_train)
        testset  == Values(y_test)
    IN  IF Len(trainset) = 0 THEN AdapterRaises("ValueError")
        ELSE LET data_min       == MinSeq(trainset \o testset)
                 y_train_scaled == [k \in 1..Len(trainset) |-> Transform(data_min, trainset[k])]
                 y_test_scaled  == [k \in 1..Len(testset) |-> Transform(data_min, testset[k])]
                 train_X        == Windows60(y_train_scaled)
                 test_scaled    == Tail_n(y_train_scaled, LookBack) \o y_test_scaled
                 test_X         == Windows60(test_scaled)
                 predictions    == [k \in 1..Len(test_X) |->
                                      InverseTransform(data_min, NetPredict(net, test_X[k]))]
                 errors         == Errors(y_test, predictions)
                 rolled         == Rollout(net, test_X[Len(test_X)], Len(forecast_days))
                 forecast       == [k \in 1..Len(rolled) |->
                                      InverseTransform(data_min, rolled[k])]
                 fit            == <<ModelCall("fit", 0, Len(train_X), Len(trainset))>>
                 validated      == Append(fit, ModelCall("predict", 0, Len(test_X),
                                                         Len(trainset)))
                 rolling        == [k \in 1..Len(forecast_days) |->
                                      ModelCall("predict", 0, 1, Len(trainset))]
                 val_log        == [NoLog EXCEPT !.calls = validated,
                                                 !.val_X = test_X,
                                                 !.val_pred = predictions]
             IN  IF train_X = <<>> THEN AdapterRaises("IndexError")
                 ELSE IF net = "fails"
                 THEN WithLog(AdapterRaises("ValueError"), [NoLog EXCEPT !.calls = fit])
                 ELSE IF errors.kind = "raise"
                 THEN WithLog(AdapterRaises(errors.exc), val_log)
                 ELSE IF Len(forecast_days) = 0
                 THEN WithLog(AdapterRaises("ValueError"), val_log)
                 ELSE WithLog(Finish(errors, forecast_days, forecast),
                              [val_log EXCEPT
                                 !.calls = validated \o rolling,
                                 !.fc_X = RolloutWindows(net, test_X[Len(test_X)],
                                                         Len(forecast_days))])

(***************************************************************************)
(* MCMC_model.  The draws of the sampler are external: seed names the      *)
(* state of numpy's generator, Draw the draw pts[timestep + 5] of the      *)
(* call-th run of MH, in percent.  The price step                          *)
(* price * exp(drift * delta_t + vol * sqrt(delta_t) * z) is kept in       *)
(* fixed point: price * (100 + z) / 100.                                   *)
(***************************************************************************)
Seeds == {0, 1}

Draw(seed, call, timestep) == ((seed * 5 + call * 3 + timestep * 7) % 11) - 5

Evolve(stock_price, z) == (stock_price * (100 + z)) \div 100

\* the position (0-based) stock_pred[-i] reads in a list of length n:
\* -0 is the first element, -i the i-th from the end
NegIndex(n, i) == IF i = 0 THEN 0 ELSE n - i

\* stock_pred[p] (0-based) of MH: y_train[-1] at 0; the pass with
\* timestep = p, i = p - 1 and len(stock_pred) = p appends the p-th
RECURSIVE StockPredAt(_, _, _, _)
StockPredAt(seed, call, last_price, p) ==
    IF p = 0 THEN last_price
    ELSE LET stock_price == StockPredAt(seed, call, last_price, NegIndex(p, p - 1))
         IN  Evolve(stock_price, Draw(seed, call, p))

\* stock_pred of MH(y_train, y_test, is_forecast): y_train the values of the
\* history, steps the length of y_test; the loop runs while timestep < steps
MHPred(seed, call, y_train, steps) ==
    [k \in 1..(IF steps > 1 THEN steps ELSE 1) |->
        StockPredAt(seed, call, Last(y_train), k - 1)]

\* the passes of MH's while loop, timestep = 1 .. steps - 1: the pass reads
\* stock_pred[-i] with i = timestep - 1 when the list holds timestep entries
\* (index: the position read, 0-based), reads no entry of y_test, and
\* appends the entry at position timestep (0-based)
MHReads(steps) ==
    [p \in 1..(steps - 1) |->
        [timestep |-> p, index |-> NegIndex(p, p - 1), appends |-> p,
         y_test_read |-> {}]]

MCMC_model(s, seed, y_train, y_test, forecast_days) ==
    IF Len(y_train) = 0 THEN AdapterRaises("IndexError")
    ELSE LET val_pred   == MHPred(seed, 1, Values(y_train), Len(y_test))
             val_errors == Errors(y_test, val_pred)
             hist_data  == Values(y_train) \o Values(y_test)
             forecast   == MHPred(seed, 2, hist_data, Len(forecast_days))
             val_log    == [NoLog EXCEPT !.val_pred = val_pred,
                                         !.val_reads = MHReads(Len(y_test))]
         IN  IF val_errors.kind = "raise"
             THEN WithLog(AdapterRaises(val_errors.exc), val_log)
             ELSE IF s = "deploy" THEN WithLog(AdapterRaises("NameError"), val_log)
             ELSE IF Len(forecast_days) = 0
             THEN WithLog(AdapterRaises("ZeroDivisionError"), val_log)
             ELSE WithLog(Finish(val_errors, forecast_days, forecast),
                          [val_log EXCEPT !.fc_pred = forecast,
                                          !.fc_reads = MHReads(Len(forecast_days))])

(***************************************************************************)
(* The figure.  The 'Final Forecast' trace adds the three fc columns and   *)
(* divides by 3; pandas adds two Series label by label.                    *)
(***************************************************************************)
CellAdd(a, b) ==
    IF a.nan \/ b.nan THEN NaNCell
    ELSE [nan |-> FALSE, num |-> a.num * b.den + b.num * a.den, den |-> a.den * b.den]

CellDiv(a, n) == IF a.nan THEN NaNCell ELSE [a EXCEPT !.den = a.den * n]

FrameIndex(frame) == [k \in 1..Len(frame) |-> frame[k].day]
FrameValues(frame) == [k \in 1..Len(frame) |-> frame[k].fc]

RECURSIVE SortedSeq(_)
SortedSeq(S) ==
    IF S = {} THEN <<>>
    ELSE LET m == CHOOSE x \in S : \A y \in S : x <= y
         IN  <<m>> \o SortedSeq(S \ {m})

\* the cell of label d in a frame with unique labels, NaN when d is no label
AtLabel(frame, d) ==
    IF \E k \in 1..Len(frame) : frame[k].day = d
    THEN frame[CHOOSE k \in 1..Len(frame) : frame[k].day = d].fc
    ELSE NaNCell

\* a + b of two Series: equal indexes add in place, others over the union
SeriesAdd(a, b) ==
    IF FrameIndex(a) = FrameIndex(b)
    THEN [k \in 1..Len(a) |-> [day |-> a[k].day, fc |-> CellAdd(a[k].fc, b[k].fc)]]
    ELSE LET labels == SortedSeq({a[k].day : k \in 1..Len(a)} \cup {b[k].day : k \in 1..Len(b)})
         IN  [k \in 1..Len(labels) |->
                [day |-> labels[k],
                 fc  |-> CellAdd(AtLabel(a, labels[k]), AtLabel(b, labels[k]))]]

SeriesDiv(a, n) == [k \in 1..Len(a) |-> [day |-> a[k].day, fc |-> CellDiv(a[k].fc, n)]]

FinalForecast_TwoModels(fc_arima, fc_lstm, fc_mcmc) ==
    SeriesDiv(SeriesAdd(fc_arima, fc_lstm), 2)

\* (fc_arima['fc'] + fc_lstm['fc'] + fc_mcmc['fc'])/3
FinalForecast(fc_arima, fc_lstm, fc_mcmc) ==
    SeriesDiv(SeriesAdd(SeriesAdd(fc_arima, fc_lstm), fc_mcmc), 3)

Trace(name, x, y) == [name |-> name, x |-> x, y |-> y]

HistCells(series) == [k \in 1..Len(series) |-> Cell(series[k].close)]

\* the traces of the figure in the order they are added
Traces(s, all_days, fc_arima, fc_lstm, fc_mcmc) ==
    IF s = "untitled"
    THEN << Trace("historical", Index(all_days), HistCells(all_days)),
            Trace("LSTM", FrameIndex(fc_lstm), FrameValues(fc_lstm)),
            Trace("MCMC", FrameIndex(fc_mcmc), FrameValues(fc_mcmc)),
            Trace("ARIMA", FrameIndex(fc_arima), FrameValues(fc_arima)),
            Trace("Final Forecast", FrameIndex(fc_arima),
                  FrameValues(FinalForecast(fc_arima, fc_lstm, fc_mcmc))) >>
    ELSE << Trace("historical", [k \in 1..Len(all_days) |-> k - 1], HistCells(all_days)),
            Trace("LSTM", [k \in 1..Len(fc_lstm) |-> k - 1], FrameValues(fc_lstm)),
            Trace("MCMC", [k \in 1..Len(fc_mcmc) |-> k - 1], FrameValues(fc_mcmc)),
            Trace("ARIMA", [k \in 1..Len(fc_arima) |-> k - 1], FrameValues(fc_arima)) >>

(***************************************************************************)
(* search_symbols.  The page is external: heading tells whether the        *)
(* 'Symbols' heading appeared within the wait, items are the <li> of the   *)
(* suggestion list.  A text is a sequence of tokens (words, blanks, the    *)
(* separator ' - '); an element that find() does not find is None.         *)
(***************************************************************************)
Found(text) == [found |-> TRUE, text |-> text]
NotFound == [found |-> FALSE, text |-> <<>>]

IsSpace(t) == t \in {" ", "\t"}

\* str.strip()
RECURSIVE LStrip(_)
LStrip(text) == IF text # <<>> /\ IsSpace(Head(text)) THEN LStrip(Tail(text)) ELSE text

RECURSIVE RStrip(_)
RStrip(text) ==
    IF text # <<>> /\ IsSpace(text[Len(text)])
    THEN RStrip(SubSeq(text, 1, Len(text) - 1)) ELSE text

Strip(text) == RStrip(LStrip(text))

\* str.split(sep): the pieces between the separators
RECURSIVE Split(_, _)
Split(text, sep) ==
    IF \E k \in 1..Len(text) : text[k] = sep
    THEN LET k == CHOOSE k \in 1..Len(text) :
                     text[k] = sep /\ \A j \in 1..(k - 1) : text[j] # sep
         IN  <<SubSeq(text, 1, k - 1)>> \o Split(SubSeq(text, k + 1, Len(text)), sep)
    ELSE <<text>>

EmptyTable == [Symbol |-> <<>>, Company |-> <<>>, Exchange |-> <<>>]

NoRelevantStocks == "No relevant stocks found."

SearchReturnsMessage ==
    [kind |-> "message", exc |-> "none", message |-> NoRelevantStocks, table |-> EmptyTable]
SearchReturnsTable(t) ==
    [kind |-> "table", exc |-> "none", message |-> "", table |-> t]
SearchRaises(e) == [kind |-> "raise", exc |-> e, message |-> "", table |-> EmptyTable]

\* for item in items (from the i-th, 1-based, on), the three lists so far in
\* lists; .text of None raises AttributeError, [1] of a one-piece split
\* raises IndexError
RECURSIVE ExtractFrom(_, _, _)
ExtractFrom(items, i, lists) ==
    IF i > Len(items) THEN [exc |-> "none", lists |-> lists]
    ELSE LET item == items[i]
         IN  IF ~item.symbol.found THEN [exc |-> "AttributeError", lists |-> lists]
             ELSE IF Strip(item.symbol.text) = <<"PRIVATE">>
             THEN ExtractFrom(items, i + 1, lists)
             ELSE LET symbol_list == Append(lists.Symbol, Strip(item.symbol.text))
                  IN  IF ~item.company.found
                      THEN [exc |-> "AttributeError",
                            lists |-> [lists EXCEPT !.Symbol = symbol_list]]
                      ELSE LET company_name_list ==
                                   Append(lists.Company, Strip(item.company.text))
                           IN  IF ~item.span.found
                               THEN [exc |-> "AttributeError",
                                     lists |-> [lists EXCEPT !.Symbol = symbol_list,
                                                             !.Company = company_name_list]]
                               ELSE LET pieces == Split(Strip(item.span.text), " - ")
                                    IN  IF Len(pieces) < 2
                                        THEN [exc |-> "IndexError",
                                              lists |-> [lists EXCEPT
                                                           !.Symbol = symbol_list,
                                                           !.Company = company_name_list]]
                                        ELSE ExtractFrom(items, i + 1,
                                               [Symbol   |-> symbol_list,
                                                Company  |-> company_name_list,
                                                Exchange |-> Append(lists.Exchange, pieces[2])])

Extract_KeepsPrivate(items) ==
    ExtractFrom([k \in 1..Len(items) |->
                   IF items[k].symbol.found /\ Strip(items[k].symbol.text) = <<"PRIVATE">>
                   THEN [items[k] EXCEPT !.symbol = Found(<<"private">>)]
                   ELSE items[k]], 1, EmptyTable)

Extract(items) == ExtractFrom(items, 1, EmptyTable)

search_symbols(page) ==
    IF ~page.heading THEN SearchReturnsMessage
    ELSE LET extracted == Extract(page.items)
             possible_symbols == extracted.lists
         IN  IF extracted.exc # "none" THEN SearchRaises(extracted.exc)
             \* pd.DataFrame of lists of different lengths raises
             ELSE IF \/ Len(possible_symbols.Symbol) # Len(possible_symbols.Company)
                     \/ Len(possible_symbols.Symbol) # Len(possible_symbols.Exchange)
             THEN SearchRaises("ValueError")
             ELSE IF Len(possible_symbols.Symbol) = 0 THEN SearchReturnsMessage
             ELSE SearchReturnsTable(possible_symbols)

NoSearch ==
    [ page |-> [heading |-> FALSE, items |-> <<>>],
      result |-> [kind |-> "idle", exc |-> "none", message |-> "", table |-> EmptyTable] ]

(***************************************************************************)
(* The scripts.                                                            *)
(***************************************************************************)
Adapters == {"ARIMA", "LSTM", "MCMC"}

NoOutput == [message |-> "", error_df |-> <<>>, traces |-> <<>>]
NoArgs == [validation_days |-> 0, days_to_forecast |-> 0, leap_days |-> 0]
Idle == [actual |-> <<>>, predicted |-> <<>>, result |-> [kind |-> "idle", exc |-> "none", value |-> Frac(0, 1)]]

Init ==
    /\ script \in Scripts
    /\ pc = "start"
    /\ hist = <<>>
    /\ args = NoArgs
    /\ win = NoWindows
    /\ started = <<>>
    /\ fc = [a \in Adapters |-> <<>>]
    /\ errs = [a \in Adapters |-> NoErrors]
    /\ out = NoOutput
    /\ raised = "none"
    /\ da = Idle
    /\ log = [a \in Adapters |-> NoLog]
    /\ search = NoSearch

\* untitled.py, the forecast tab with a symbol entered: fetch, then either
\* st.error or the call of get_forecast
UntitledForecastTab ==
    /\ script = "untitled" /\ pc = "start"
    /\ \E h \in Histories :
         /\ hist' = h
         /\ IF Len(h) = 0
            THEN /\ out' = [out EXCEPT !.message = "No data found. Symbol is not listed."]
                 /\ pc' = "done"
            ELSE /\ out' = out
                 /\ pc' = "get_forecast"
    /\ UNCHANGED <<script, args, win, started, fc, errs, raised, da, log, search>>

\* deploy.py: fetch, print the message on an empty frame, keep the Close
\* column, define the functions, call get_forecast
DeployScript ==
    /\ script = "deploy" /\ pc = "start"
    /\ \E h \in Histories :
         /\ hist' = h
         /\ out' = IF Len(h) = 0
                   THEN [out EXCEPT !.message = "No data found. Symbol is not listed."]
                   ELSE out
         /\ pc' = "get_forecast"
    /\ UNCHANGED <<script, args, win, started, fc, errs, raised, da, log, search>>

ValidationChoices(s) == (1..MaxValidationDays) \cup {DefaultValidationDays(s)}
ForecastChoices == (1..MaxForecastDays) \cup {DefaultForecastDays}

\* get_forecast to the line before the adapters; hist.index[-1] of an empty
\* frame raises IndexError
GetForecast ==
    /\ pc = "get_forecast"
    /\ \E v \in ValidationChoices(script), f \in ForecastChoices,
          l \in LeapChoices(LookbackYears(script)) :
         /\ args' = [validation_days |-> v, days_to_forecast |-> f, leap_days |-> l]
         /\ IF Len(hist) = 0
            THEN /\ raised' = "IndexError"
                 /\ pc' = "failed"
                 /\ win' = win
            ELSE /\ win' = Windows(hist, LookbackYears(script), l, v, f)
                 /\ pc' = "ARIMA"
                 /\ raised' = raised
    /\ UNCHANGED <<script, hist, started, fc, errs, out, da, log, search>>

\* one adapter call of get_forecast: its exception is not caught
Call(name, next, result) ==
    /\ started' = Append(started, name)
    /\ log' = [log EXCEPT ![name] = result.log]
    /\ IF result.ok
       THEN /\ fc' = [fc EXCEPT ![name] = result.fc_df]
            /\ errs' = [errs EXCEPT ![name] = result.errors]
            /\ pc' = next
            /\ raised' = raised
       ELSE /\ raised' = result.exc
            /\ pc' = "failed"
            /\ UNCHANGED <<fc, errs>>
    /\ UNCHANGED <<script, hist, args, win, out, da, search>>

RunArima ==
    /\ pc = "ARIMA"
    /\ \E order \in ArimaOrders :
         Call("ARIMA", "LSTM", auto_arima_model(order, win.y_train, win.y_test, win.forecast_days))

RunLstm ==
    /\ pc = "LSTM"
    /\ \E net \in LstmNets :
         Call("LSTM", "MCMC", lstm_model(net, win.y_train, win.y_test, win.forecast_days))

RunMcmc ==
    /\ pc = "MCMC"
    /\ \E seed \in Seeds :
         Call("MCMC", "report", MCMC_model(script, seed, win.y_train, win.y_test, win.forecast_days))

\* get_forecast after the adapters: error_df and the figure
Report ==
    /\ pc = "report"
    /\ out' = [out EXCEPT
                 !.error_df = << [model |-> "ARIMA", errors |-> errs["ARIMA"]],
                                 [model |-> "LSTM", errors |-> errs["LSTM"]],
                                 [model |-> "MCMC", errors |-> errs["MCMC"]] >>,
                 !.traces = Traces(script, win.all_days, fc["ARIMA"], fc["LSTM"], fc["MCMC"])]
    /\ pc' = "done"
    /\ UNCHANGED <<script, hist, args, win, started, fc, errs, raised, da, log, search>>

Next ==
    \/ UntitledForecastTab
    \/ DeployScript
    \/ GetForecast
    \/ RunArima
    \/ RunLstm
    \/ RunMcmc
    \/ Report

Spec == Init /\ [][Next]_vars

(***************************************************************************)
(* calculate_directional_accuracy applied to arbitrary sequences.          *)
(***************************************************************************)
PriceSeqs == UNION { [1..n -> 1..MaxPrice] : n \in 0..MaxLen }

InitDA ==
    /\ script = "untitled"
    /\ pc = "metrics"
    /\ hist = <<>>
    /\ args = NoArgs
    /\ win = NoWindows
    /\ started = <<>>
    /\ fc = [a \in Adapters |-> <<>>]
    /\ errs = [a \in Adapters |-> NoErrors]
    /\ out = NoOutput
    /\ raised = "none"
    /\ log = [a \in Adapters |-> NoLog]
    /\ search = NoSearch
    /\ \E a \in PriceSeqs, p \in PriceSeqs :
         da = [actual |-> a, predicted |-> p, result |-> Idle.result]

CallDirectionalAccuracy ==
    /\ pc = "metrics"
    /\ da.result.kind = "idle"
    /\ da' = [da EXCEPT !.result = calculate_directional_accuracy(da.actual, da.predicted)]
    /\ UNCHANGED <<script, pc, hist, args, win, started, fc, errs, out, raised, log, search>>

NextDA == CallDirectionalAccuracy

SpecDA == InitDA /\ [][NextDA]_vars

(***************************************************************************)
(* search_symbols applied to the pages the site can answer with: the tab   *)
(* "No. Find Symbol" of untitled.py with a stock name entered.             *)
(***************************************************************************)
\* the suggestion items: listed stocks (blanks around the texts, a span of
\* two or three pieces), private companies (with and without the other
\* elements), and items that miss an element or the separator
Items ==
    { [symbol  |-> Found(<<" ", "AAPL", " ">>),
       company |-> Found(<<"Apple Inc.">>),
       span    |-> Found(<<"Equity", " - ", "NMS">>)],
      [symbol  |-> Found(<<"APLE">>),
       company |-> Found(<<"\t", "Apple Hospitality REIT">>),
       span    |-> Found(<<" ", "ETF", " - ", "PCX", " - ", "USD", " ">>)],
      [symbol  |-> Found(<<"PRIVATE">>),
       company |-> Found(<<"Apple Leisure Group">>),
       span    |-> Found(<<"Private Company">>)],
      [symbol  |-> Found(<<" ", "PRIVATE", " ">>),
       company |-> NotFound,
       span    |-> NotFound],
      [symbol  |-> Found(<<"APC.F">>),
       company |-> Found(<<"Apple Inc.">>),
       span    |-> Found(<<"Equity">>)],
      [symbol  |-> Found(<<"AAPL.MX">>),
       company |-> NotFound,
       span    |-> Found(<<"Equity", " - ", "MEX">>)],
      [symbol  |-> NotFound,
       company |-> Found(<<"Apple Inc.">>),
       span    |-> Found(<<"Equity", " - ", "NMS">>)] }

Pages ==
    { [heading |-> h, items |-> i] :
        h \in BOOLEAN, i \in UNION { [1..n -> Items] : n \in 0..MaxItems } }

InitSearch ==
    /\ script = "untitled"
    /\ pc = "find_symbol"
    /\ hist = <<>>
    /\ args = NoArgs
    /\ win = NoWindows
    /\ started = <<>>
    /\ fc = [a \in Adapters |-> <<>>]
    /\ errs = [a \in Adapters |-> NoErrors]
    /\ out = NoOutput
    /\ raised = "none"
    /\ da = Idle
    /\ log = [a \in Adapters |-> NoLog]
    /\ \E page \in Pages : search = [NoSearch EXCEPT !.page = page]

\* suggestions = search_symbols(stock_name); an exception is not caught
UntitledFindSymbolTab ==
    /\ pc = "find_symbol"
    /\ LET suggestions == search_symbols(search.page)
       IN  /\ search' = [search EXCEPT !.result = suggestions]
           /\ raised' = IF suggestions.kind = "raise" THEN suggestions.exc ELSE raised
           /\ pc' = IF suggestions.kind = "raise" THEN "failed" ELSE "done"
    /\ UNCHANGED <<script, hist, args, win, started, fc, errs, out, da, log>>

NextSearch == UntitledFindSymbolTab

SpecSearch == InitSearch /\ [][NextSearch]_vars

(***************************************************************************)
(* Properties.                                                             *)
(***************************************************************************)
\* get_forecast has computed its windows
WindowsComputed == win.last_day # 0

DaysOf(series) == { series[k].day : k \in 1..Len(series) }

SeqElems(s) == { s[k] : k \in 1..Len(s) }

\* C1: the training and the validation series share no observation, the
\* validation series is exactly the observations with a timestamp in
\* (last_train_day, last_day], and every observation in [first_day, last_day]
\* is in exactly one of the two.
C1_TrainValidationPartition ==
    WindowsComputed =>
        /\ DaysOf(win.y_train) \cap DaysOf(win.y_test) = {}
        /\ DaysOf(win.y_test) =
             { d \in DaysOf(hist) : win.last_train_day < d /\ d <= win.last_day }
        /\ \A d \in DaysOf(hist) :
             (win.first_day <= d /\ d <= win.last_day) =>
                (d \in DaysOf(win.y_train)) # (d \in DaysOf(win.y_test))

\* C2: the list of forecast timestamps has exactly days_to_forecast entries.
C2_ForecastLength ==
    WindowsComputed => Len(win.forecast_days) = args.days_to_forecast

\* the first weekday on or after day d
FirstWeekdayFrom(d) ==
    CHOOSE e \in d..(d + 2) : IsWeekday(e) /\ \A x \in d..(e - 1) : ~IsWeekday(x)

\* C3: every forecast timestamp is a weekday strictly after the last
\* historical day, the list is strictly increasing, and it begins (when it
\* has a first entry) at the first weekday on or after last_day + 1.
C3_ForecastTimestamps ==
    WindowsComputed =>
        LET f == win.forecast_days
        IN  /\ \A k \in 1..Len(f) : IsWeekday(f[k]) /\ f[k] > win.last_day
            /\ \A k \in 1..(Len(f) - 1) : f[k] < f[k + 1]
            /\ Len(f) > 0 => f[1] = FirstWeekdayFrom(win.last_day + 1)

\* a list that crosses a weekend: the last day is a Friday or a Saturday and
\* the list runs into the second week
C3_Witness ==
    /\ WindowsComputed
    /\ win.last_day % 7 \in {4, 5}
    /\ Len(win.forecast_days) >= 6

\* the windows the adapters cannot work on
InsufficientWindows ==
    /\ WindowsComputed
    /\ \/ Len(win.y_train) = 0
       \/ Len(win.y_test) = 0
       \/ Len(win.y_train) < LookBack

\* C4: on windows that are empty or shorter than the 60-point lookback no
\* adapter is ever started, and the run ends with InsufficientDataError.
C4_InsufficientDataBeforeAdapters ==
    InsufficientWindows =>
        /\ started = <<>>
        /\ pc \in {"failed", "done"} => raised = "InsufficientDataError"

\* get_forecast was entered
GetForecastInvoked == args # NoArgs

\* C5: once an empty history is fetched the run shows the 'no data' message
\* and ends without entering get_forecast, in both scripts.
C5_EmptyHistoryFailsFast ==
    (pc # "start" /\ Len(hist) = 0) =>
        /\ out.message = "No data found. Symbol is not listed."
        /\ ~GetForecastInvoked
        /\ raised = "none"

\* the adapters whose call raised: the script stops at the first
FailedAdapters ==
    IF pc = "failed" /\ started # <<>> THEN {started[Len(started)]} ELSE {}

\* C6: when exactly one adapter fails, get_forecast still completes with the
\* error table and the figure, built from the other two models.
C6_OneAdapterFailureTolerated ==
    Cardinality(FailedAdapters) = 1 =>
        /\ pc # "failed"
        /\ out.error_df # <<>>
        /\ out.traces # <<>>

\* all three adapters returned
AllReturned == pc \in {"report", "done"} /\ Len(started) = 3

\* C7: when all three adapters return, each forecast frame is indexed by the
\* forecast timestamps get_forecast passed in (same length, same order) and
\* holds a value at every one of them.
C7_ForecastsShareTimestamps ==
    AllReturned =>
        \A a \in Adapters :
            /\ FrameIndex(fc[a]) = win.forecast_days
            /\ \A k \in 1..Len(fc[a]) : ~fc[a][k].fc.nan

C7_Witness ==
    /\ AllReturned
    /\ Len(win.forecast_days) >= 2
    /\ \E a \in Adapters : fc[a][1].fc # fc[a][2].fc

\* the traces named 'Final Forecast'
FinalTraces == { t \in SeqElems(out.traces) : t.name = "Final Forecast" }

\* the value a frame with unique labels holds at timestamp d
ValueAt(frame, d) == frame[CHOOSE k \in 1..Len(frame) : frame[k].day = d].fc.num

\* C8: the ensemble trace has one value per forecast timestamp, and the
\* value at a timestamp is a third of the sum of the three models' values at
\* that timestamp.
C8_EnsembleIsMeanPerTimestamp ==
    \A t \in FinalTraces :
        /\ t.x = win.forecast_days
        /\ Len(t.y) = Len(t.x)
        /\ \A k \in 1..Len(t.x) :
             /\ ~t.y[k].nan
             /\ t.y[k].num * 3 =
                  t.y[k].den * ( ValueAt(fc["ARIMA"], t.x[k]) + ValueAt(fc["LSTM"], t.x[k])
                                   + ValueAt(fc["MCMC"], t.x[k]) )

\* an ensemble over several timestamps at which the three models disagree
C8_Witness ==
    \E t \in FinalTraces :
        /\ Len(t.x) >= 2
        /\ \E k \in 1..Len(t.x) :
             ValueAt(fc["ARIMA"], t.x[k]) # ValueAt(fc["MCMC"], t.x[k])
        /\ t.y[1] # t.y[2]

\* calculate_directional_accuracy was applied to da.actual and da.predicted
Called == da.result.kind # "idle"

\* the two buckets of a move: zero counts as non-negative
Bucket(move) == IF move >= 0 THEN "non-negative" ELSE "negative"

\* the positions i (0-based, 1 <= i < len) whose predicted move, measured from
\* the previous actual, falls in the bucket of the actual move
MatchingMoves(actual, predicted) ==
    { i \in 1..(Len(actual) - 1) :
        Bucket(actual[i + 1] - actual[i]) = Bucket(predicted[i + 1] - actual[i]) }

\* the fraction v lies within [0, 1]
InUnitInterval(v) ==
    IF v.den > 0 THEN 0 <= v.num /\ v.num <= v.den
    ELSE v.den < 0 /\ v.den <= v.num /\ v.num <= 0

\* what C9 says of a call on sequences of equal length
DirectionalAccuracyContract ==
    LET n       == Len(da.actual)
        matches == MatchingMoves(da.actual, da.predicted)
        v       == da.result.value
    IN  /\ da.result.kind = "return"
        /\ v.num * (n - 1) = Cardinality(matches) * v.den
        /\ InUnitInterval(v)
        /\ (\A i \in 1..(n - 1) : i \in matches) => v.num = v.den
        /\ (\A i \in 1..(n - 1) : i \notin matches) => v.num = 0

\* C9 as stated: for all sequences of equal length the call returns
\* matches / (len - 1), a value within [0, 1] that is 1 when every move
\* matches and 0 when none does.
C9_DirectionalAccuracyAllLengths ==
    (Called /\ Len(da.actual) = Len(da.predicted)) => DirectionalAccuracyContract

\* C9 amended: the same for sequences of equal length at least 2.
C9_DirectionalAccuracy ==
    (Called /\ Len(da.actual) = Len(da.predicted) /\ Len(da.actual) >= 2)
        => DirectionalAccuracyContract

\* a call that returns a value strictly between 0 and 1, with a zero move
C9_Witness ==
    /\ Called
    /\ Len(da.actual) = Len(da.predicted)
    /\ Len(da.actual) >= 3
    /\ da.result.kind = "return"
    /\ 0 < da.result.value.num /\ da.result.value.num < da.result.value.den
    /\ \E i \in 1..(Len(da.actual) - 1) : da.actual[i + 1] = da.actual[i]

\* C10: on sequences of different lengths the call raises the length error
\* and returns no accuracy.
C10_LengthMismatchRaises ==
    (Called /\ Len(da.actual) # Len(da.predicted)) =>
        /\ da.result.kind = "raise"
        /\ da.result.exc = "ValueError"

\* a call on more actual than predicted prices, and one on fewer
C10_Witness ==
    /\ Called
    /\ Len(da.actual) = Len(da.predicted) + 1
    /\ Len(da.predicted) >= 2
    /\ da.result.kind = "raise"

\* C11: on two sequences of the same length 0 or 1 the call raises the
\* degenerate-input error: it returns no number and raises nothing else.
C11_DegenerateInputError ==
    (Called /\ Len(da.actual) = Len(da.predicted) /\ Len(da.actual) < 2) =>
        /\ da.result.kind = "raise"
        /\ da.result.exc = "DegenerateInputError"

\* adapter a got as far as handing validation predictions to the metrics
Validated(a) == log[a].val_pred # <<>>

\* the concatenated train + validation series of the adapters
TrainThenValidation == Values(win.y_train) \o Values(win.y_test)

\* its scaled values as the sequence adapter sees them
ScaledObservations ==
    LET all      == TrainThenValidation
        data_min == MinSeq(all)
    IN  [j \in 1..Len(all) |-> Transform(data_min, all[j])]

\* the LookBack values of obs that immediately precede position p
WindowBefore(obs, p) == [j \in 1..LookBack |-> obs[p - LookBack - 1 + j]]

\* the calls of one method among an adapter's calls, in call order
CallsOf(a, op) == SelectSeq(log[a].calls, LAMBDA c : c.op = op)

\* the validation predictions are as many as the validation observations
SameLengthAsValidation(a) == Len(log[a].val_pred) = Len(win.y_test)

\* the k-th prediction of the statistical adapter is the one-step prediction
\* of the model that holds the training series and the first k-1 validation
\* observations
ArimaAligned ==
    LET predicted == CallsOf("ARIMA", "validate_and_update")
    IN  /\ SameLengthAsValidation("ARIMA")
        /\ Len(predicted) = Len(win.y_test)
        /\ \A k \in 1..Len(win.y_test) :
              predicted[k] =
                  ModelCall("validate_and_update", k, 1, Len(win.y_train) + k - 1)

\* the k-th prediction of the sequence adapter is made on the window that
\* ends right before the k-th validation observation
LstmAligned ==
    LET obs == ScaledObservations
    IN  /\ SameLengthAsValidation("LSTM")
        /\ Len(log["LSTM"].val_X) = Len(win.y_test)
        /\ \A k \in 1..Len(win.y_test) :
              log["LSTM"].val_X[k] = WindowBefore(obs, Len(win.y_train) + k)

\* the k-th entry of the simulation is the price after its k-th step
McmcAligned ==
    LET reads == log["MCMC"].val_reads
    IN  /\ SameLengthAsValidation("MCMC")
        /\ Len(reads) = Len(win.y_test)
        /\ \A k \in 1..Len(win.y_test) :
              reads[k].timestep = k /\ reads[k].appends = k - 1

\* C12: for each adapter the validation predictions handed to the metrics
\* are as many as the validation observations, and the k-th is the
\* prediction of the k-th observation: the statistical model's one-step
\* prediction after training and the first k-1 observations, the sequence
\* model's output on the window that ends right before the k-th observation,
\* the simulation's price after its k-th step.
C12_ValidationPredictionsAligned ==
    /\ Validated("ARIMA") => ArimaAligned
    /\ Validated("LSTM") => LstmAligned
    /\ Validated("MCMC") => McmcAligned

\* the parts of C12 that hold: the lengths of all three, the alignment of the
\* statistical and of the sequence adapter
LengthsAndTwoAligned ==
    /\ Validated("ARIMA") => ArimaAligned
    /\ Validated("LSTM") => LstmAligned
    /\ Validated("MCMC") => SameLengthAsValidation("MCMC")

\* a pass of the simulation's validation replay, with the validation
\* observation that precedes the entry it appends
ValidationPasses ==
    { r \in SeqElems(log["MCMC"].val_reads) : r.appends >= 1 }

\* C13: in the validation replay of the simulation adapter, the pass that
\* produces the prediction of validation point k has read the true value of
\* the validation point before it (position k-1, 1-based).
C13_McmcWalkForward ==
    Validated("MCMC") =>
        \A r \in ValidationPasses : r.appends \in r.y_test_read

\* the positions, among an adapter's calls, of the calls of one method
Positions(a, op) ==
    SelectSeq([j \in 1..Len(log[a].calls) |-> j], LAMBDA j : log[a].calls[j].op = op)

\* C14: the statistical adapter predicts and updates once per validation
\* point, in the order of the points; the prediction of point k comes
\* before the update with point k and after the update with point k-1 (so
\* after those of all earlier points), on a model that holds the training
\* series and the k-1 earlier points; the multi-step forecast is asked for
\* once at most, after the last update.
C14_ArimaPredictThenUpdate ==
    Validated("ARIMA") =>
        LET calls     == log["ARIMA"].calls
            predicts  == Positions("ARIMA", "validate_and_update")
            updates   == Positions("ARIMA", "update")
            forecasts == Positions("ARIMA", "forecast_one_month")
            n         == Len(win.y_test)
        IN  /\ Len(predicts) = n
            /\ Len(updates) = n
            /\ \A k \in 1..n :
                  /\ calls[predicts[k]].k = k
                  /\ calls[updates[k]].k = k
                  /\ calls[predicts[k]].seen = Len(win.y_train) + k - 1
                  /\ predicts[k] < updates[k]
                  /\ k > 1 => updates[k - 1] < predicts[k]
            /\ Len(forecasts) <= 1
            /\ \A f \in 1..Len(forecasts) : updates[n] < forecasts[f]

\* a walk over several validation points followed by the forecast call
C14_Witness ==
    /\ Validated("ARIMA")
    /\ Len(win.y_test) >= 3
    /\ Len(Positions("ARIMA", "forecast_one_month")) = 1
    /\ Len(log["ARIMA"].calls) = 2 * Len(win.y_test) + 2

\* every pass of a run of the simulation reads the entry right before the
\* one it appends
ReadsPrecedingEntry(reads) ==
    \A j \in 1..Len(reads) : reads[j].index = reads[j].appends - 1

\* C15: in the validation replay and in the forecast rollout the first
\* simulated price is the last price of the series passed as history, and
\* every later one is made from the simulated price right before it.
C15_McmcRecurrence ==
    Validated("MCMC") =>
        /\ log["MCMC"].val_pred[1] = Last(Values(win.y_train))
        /\ ReadsPrecedingEntry(log["MCMC"].val_reads)
        /\ log["MCMC"].fc_pred # <<>> =>
              /\ log["MCMC"].fc_pred[1] = Last(TrainThenValidation)
              /\ ReadsPrecedingEntry(log["MCMC"].fc_reads)

\* C16: with a training series of at least 60 observations, the window the
\* sequence adapter predicts validation point k from is the 60 observations
\* right before point k in the concatenated series (scaled), for every k,
\* and the model is fitted once, before the validation predictions.
C16_LstmValidationWindows ==
    (Validated("LSTM") /\ Len(win.y_train) >= LookBack) =>
        LET obs      == ScaledObservations
            fits     == Positions("LSTM", "fit")
            predicts == Positions("LSTM", "predict")
        IN  /\ Len(log["LSTM"].val_X) = Len(win.y_test)
            /\ \A k \in 1..Len(win.y_test) :
                  /\ Len(log["LSTM"].val_X[k]) = LookBack
                  /\ log["LSTM"].val_X[k] = WindowBefore(obs, Len(win.y_train) + k)
            /\ Len(fits) = 1
            /\ \A p \in 1..Len(predicts) : fits[1] < predicts[p]

\* validation windows that slide over several validation points
C16_Witness ==
    /\ Validated("LSTM")
    /\ Len(win.y_train) >= LookBack
    /\ Len(win.y_test) >= 3
    /\ log["LSTM"].val_X[1] # log["LSTM"].val_X[2]
    /\ log["LSTM"].val_X[2] # log["LSTM"].val_X[3]

\* the sequence adapter ran its forecast loop
RolledOut == log["LSTM"].fc_X # <<>>

\* C17: the forecast loop of the sequence adapter starts from the window of
\* the 60 most recent observations, the last historical day included; every
\* later window is the one before it without its oldest value and with the
\* prediction made from it appended (60 values); and there is one
\* prediction per forecast timestamp.
C17_LstmRollout ==
    RolledOut =>
        LET obs      == ScaledObservations
            data_min == MinSeq(TrainThenValidation)
            X        == log["LSTM"].fc_X
            n        == Len(win.forecast_days)
        IN  /\ Len(X) = n
            /\ Len(fc["LSTM"]) = n
            /\ X[1] = WindowBefore(obs, Len(obs) + 1)
            /\ \A j \in 2..n :
                  /\ Len(X[j]) = LookBack
                  /\ X[j] = Append(Tail(X[j - 1]),
                                   Transform(data_min, fc["LSTM"][j - 1].fc.num))

\* what holds of the loop: it starts from the window that ends on the day
\* before the last historical day
RolloutFromLastValidationWindow ==
    RolledOut =>
        LET obs      == ScaledObservations
            data_min == MinSeq(TrainThenValidation)
            X        == log["LSTM"].fc_X
            n        == Len(win.forecast_days)
        IN  /\ Len(X) = n
            /\ Len(fc["LSTM"]) = n
            /\ X[1] = WindowBefore(obs, Len(obs))
            /\ \A j \in 2..n :
                  /\ Len(X[j]) = LookBack
                  /\ X[j] = Append(Tail(X[j - 1]),
                                   Transform(data_min, fc["LSTM"][j - 1].fc.num))

\* search_symbols was applied to search.page
Searched == search.result.kind # "idle"

\* the item is shown with the symbol PRIVATE
IsPrivate(item) == item.symbol.found /\ Strip(item.symbol.text) = <<"PRIVATE">>

\* the items of the page that are not private, in page order
ListedItems == SelectSeq(search.page.items, LAMBDA item : ~IsPrivate(item))

\* the exchange in a type-and-exchange text: what stands between the first
\* separator and the next one (or the end)
ExchangeIn(text) ==
    LET t     == Strip(text)
        seps  == { k \in 1..Len(t) : t[k] = " - " }
        first == CHOOSE k \in seps : \A j \in seps : k <= j
        later == { k \in seps : k > first }
        stop  == IF later = {} THEN Len(t) + 1
                 ELSE CHOOSE k \in later : \A j \in later : k <= j
    IN  SubSeq(t, first + 1, stop - 1)

\* every item has its symbol, and every item that is not private has its
\* company name and a type-and-exchange text with the separator
WellFormedItems ==
    \A k \in 1..Len(search.page.items) :
        LET item == search.page.items[k]
        IN  /\ item.symbol.found
            /\ ~IsPrivate(item) =>
                  /\ item.company.found
                  /\ item.span.found
                  /\ \E j \in 1..Len(item.span.text) : item.span.text[j] = " - "

\* what C18 says of the outcome: the message, or a table that is not empty,
\* has three columns of one length and holds, row by row, the items that
\* are not private
SuggestionsContract ==
    \/ /\ search.result.kind = "message"
       /\ search.result.message = NoRelevantStocks
    \/ /\ search.result.kind = "table"
       /\ LET t == search.result.table
          IN  /\ Len(t.Symbol) > 0
              /\ Len(t.Company) = Len(t.Symbol)
              /\ Len(t.Exchange) = Len(t.Symbol)
              /\ Len(t.Symbol) = Len(ListedItems)
              /\ \A k \in 1..Len(t.Symbol) :
                    /\ t.Symbol[k] # <<"PRIVATE">>
                    /\ t.Symbol[k] = Strip(ListedItems[k].symbol.text)
                    /\ t.Company[k] = Strip(ListedItems[k].company.text)
                    /\ t.Exchange[k] = ExchangeIn(ListedItems[k].span.text)

====
